---- MODULE Spec2Model ----
(***************************************************************************)
(* DICOM2BMP: the batch converter of src/utils.py as a state machine.      *)
(*                                                                         *)
(* A pixel array is a record [shape, v, den, nan]: shape is numpy's shape  *)
(* tuple, v the samples in C order, each sample the exact rational         *)
(* v[k] / den, and nan says that every sample is NaN (the only way the     *)
(* pipeline produces a non-finite value is 0/0 on a flat array, which      *)
(* makes all samples NaN at once).  The datasets drawn in Init use integer *)
(* rescale values and window widths that are powers of two, for which the  *)
(* float64 arithmetic of the code is exact up to the final truncation.     *)
(***************************************************************************)
EXTENDS Integers, Sequences, FiniteSets, TLC

\* ---------------------------------------------------------------- bounds

\* Raw pixel samples are drawn from 0..MaxVal.
MaxVal == 2
\* Number of .dcm files inside the input directory "dir".
MaxDirFiles == 2
\* Longest origin collection passed to _dicom_convertor.
MaxInputs == 2
\* Size of the process pool (ProcessPoolExecutor() takes the host's CPU count).
MaxWorkers == 2

\* ------------------------------------------------------------- sequences

Range(s) == {s[k] : k \in DOMAIN s}

SeqMin(s) == CHOOSE x \in Range(s) : \A y \in Range(s) : x <= y

SeqMax(s) == CHOOSE x \in Range(s) : \A y \in Range(s) : x >= y

\* ------------------------------------------------------- Compatibility Gate

PDF_UID == "1.2.840.10008.5.1.4.1.1.104.1"
KOS_UID == "1.2.840.10008.5.1.4.1.1.88.59"
CT_UID == "1.2.840.10008.5.1.4.1.1.2"

\* The gate's return value: a SOP class name (a truthy string), or False.
_is_unsupported_swapped(ds) ==
    IF ds.SOPClassUID = PDF_UID
    THEN [unsupported |-> TRUE, name |-> "Key Object Selection Document"]
    ELSE IF ds.SOPClassUID = KOS_UID
    THEN [unsupported |-> TRUE, name |-> "Encapsulated PDF Storage"]
    ELSE [unsupported |-> FALSE, name |-> "False"]

_is_unsupported(ds) ==
    IF ds.SOPClassUID = PDF_UID
    THEN [unsupported |-> TRUE, name |-> "Encapsulated PDF Storage"]
    ELSE IF ds.SOPClassUID = KOS_UID
    THEN [unsupported |-> TRUE, name |-> "Key Object Selection Document"]
    ELSE [unsupported |-> FALSE, name |-> "False"]

\* ----------------------------------------------------------- Pixel Pipeline

\* pydicom's apply_modality_lut on a dataset without a ModalityLUTSequence and
\* without both rescale attributes: the array comes back unchanged.
apply_modality_lut(a, ds) == a

\* pydicom's apply_voi_lut on a dataset without a VOILUTSequence and without
\* both window attributes: the array comes back unchanged.
apply_voi_lut(a, ds) == a

\* float(ds.WindowCenter) / float(ds.WindowCenter[0]) for a MultiValue.
FirstValue(mv) == mv.vals[1]

\* data <= level - window/2 -> data_min; data > level + window/2 -> data_max;
\* otherwise ((data - level + window/2) / window * data_range) + data_min.
\* Samples are v/den; the result has denominator 2 * den * den * window.
_get_LUT_value_LINEAR_EXACT(a, window, level) ==
    LET d == a.den
        data_min == SeqMin(a.v)
        data_max == SeqMax(a.v)
        data_range == data_max - data_min
        D == 2 * d * d * window
        one(x) == IF 2 * x <= d * (2 * level - window) THEN 2 * d * window * data_min
                  ELSE IF 2 * x > d * (2 * level + window) THEN 2 * d * window * data_max
                  ELSE (2 * x - 2 * d * level + d * window) * data_range
                       + 2 * d * window * data_min
    IN  [a EXCEPT !.v = [k \in DOMAIN a.v |-> one(a.v[k])], !.den = D]

\* Step 1: Modality LUT (Rescale slope/intercept).
ModalityStep(ds, st) ==
    LET a == st.arr
    IN  [st EXCEPT
           !.arr = IF "RescaleSlope" \in ds.has /\ "RescaleIntercept" \in ds.has
                   THEN [a EXCEPT !.v = [k \in DOMAIN a.v |->
                            a.v[k] * ds.RescaleSlope + ds.RescaleIntercept * a.den]]
                   ELSE apply_modality_lut(a, ds),
           !.log = Append(@, "modality")]

\* Step 2: VOI LUT (Window/Level).
VOIStep(ds, st) ==
    LET a == st.arr
    IN  [st EXCEPT
           !.arr = IF "VOILUTFunction" \in ds.has /\ ds.VOILUTFunction = "SIGMOID"
                   THEN apply_voi_lut(a, ds)
                   ELSE IF "WindowCenter" \in ds.has /\ "WindowWidth" \in ds.has
                   THEN _get_LUT_value_LINEAR_EXACT(a, FirstValue(ds.WindowWidth),
                                                    FirstValue(ds.WindowCenter))
                   ELSE apply_voi_lut(a, ds),
           !.log = Append(@, "voi")]

\* Step 3: ((a - a.min()) / (a.max() - a.min())) * 255.0 .  A flat array
\* divides 0 by 0: numpy warns, raises nothing, and every sample becomes NaN.
PresentationStep(st) ==
    LET a == st.arr
        lo == SeqMin(a.v)
        hi == SeqMax(a.v)
    IN  [st EXCEPT
           !.arr = IF hi = lo
                   THEN [a EXCEPT !.v = [k \in DOMAIN a.v |-> 0], !.den = 1, !.nan = TRUE]
                   ELSE [a EXCEPT !.v = [k \in DOMAIN a.v |-> 255 * (a.v[k] - lo)],
                                  !.den = hi - lo],
           !.divByZero = (hi = lo),
           !.log = Append(@, "normalize")]

\* MONOCHROME1: np.max(a) - a  (NaN stays NaN).
InvertStep(ds, st) ==
    LET a == st.arr
    IN  IF "PhotometricInterpretation" \in ds.has
           /\ ds.PhotometricInterpretation = "MONOCHROME1"
        THEN [st EXCEPT !.arr = [a EXCEPT !.v = [k \in DOMAIN a.v |-> SeqMax(a.v) - a.v[k]]],
                        !.log = Append(@, "invert")]
        ELSE st

\* astype('uint8'): truncation of a finite sample in [0, 255]; the cast of NaN
\* is undefined in C, u is the byte the build happens to produce.
QuantizeStep(st, u) ==
    LET a == st.arr
    IN  [st EXCEPT
           !.arr = IF a.nan
                   THEN [a EXCEPT !.v = [k \in DOMAIN a.v |-> u], !.den = 1, !.nan = FALSE]
                   ELSE [a EXCEPT !.v = [k \in DOMAIN a.v |-> a.v[k] \div a.den], !.den = 1],
           !.nanIn = a.nan,
           !.log = Append(@, "quantize")]

\* The same steps with the cast to 8 bits moved before the inversion.
_pixel_process_misordered(ds, st, u) ==
    InvertStep(ds, QuantizeStep(PresentationStep(VOIStep(ds, ModalityStep(ds, st))), u))

\* The pipeline of lines 29-66: each step takes the array the previous one left.
_pixel_process(ds, st, u) ==
    QuantizeStep(InvertStep(ds, PresentationStep(VOIStep(ds, ModalityStep(ds, st)))), u)

\* ------------------------------------------------------------ _ds_to_file

\* What a task returns: True, or a message.  The two "cannot be converted"
\* messages are the skips, the "Error converting" message the failure.
Success == [ok |-> TRUE, kind |-> "Success", text |-> "True"]

Skipped(why) ==
    [ok |-> FALSE, kind |-> "Skipped",
     text |-> "cannot be converted. " \o why \o " currently not supported"]

Failed(e) == [ok |-> FALSE, kind |-> "Failed", text |-> "Error converting: " \o e]

Pending == [ok |-> FALSE, kind |-> "Pending", text |-> ""]

EmptyArr == [shape |-> << >>, v |-> << >>, den |-> 1, nan |-> FALSE]

NoPath == [dir |-> "", name |-> ""]

\* A task's local state before its first statement.
FreshTask ==
    [arr |-> EmptyArr, log |-> << >>, nanIn |-> FALSE, divByZero |-> FALSE,
     path |-> NoPath, result |-> Pending]

Return(st, r) == [st EXCEPT !.result = r]

ReorderList ==
    {"YBR_RCT", "RGB", "YBR_ICT", "YBR_PARTIAL_420", "YBR_FULL_422", "YBR_FULL",
     "PALETTE COLOR"}

\* pixel_array[:, :, [0, 2]] = pixel_array[:, :, [2, 0]] on an H x W x 3 array
\* laid out in C order: the first and third sample of every pixel change place.
SwapPlanes(a) ==
    [a EXCEPT !.v = [k \in DOMAIN a.v |->
                        IF (k - 1) % 3 = 0 THEN a.v[k + 2]
                        ELSE IF (k - 1) % 3 = 2 THEN a.v[k - 2]
                        ELSE a.v[k]]]

\* SeriesNumber_InstanceNumber.bmp under target_root, 'Ser' / 'Ins' for an
\* absent attribute.
_get_export_file_path(ds, target_root) ==
    [dir |-> target_root,
     name |-> (IF "SeriesNumber" \in ds.has THEN ToString(ds.SeriesNumber) ELSE "Ser")
              \o "_"
              \o (IF "InstanceNumber" \in ds.has THEN ToString(ds.InstanceNumber) ELSE "Ins")
              \o ".bmp"]

\* Lines 102-108: the plane reorder, which indexes a third axis whatever the
\* array's shape, then the export path.
ReorderAndPath(ds, target_root, st) ==
    IF "PhotometricInterpretation" \in ds.has
       /\ ds.PhotometricInterpretation \in ReorderList
    THEN IF Len(st.arr.shape) < 3
         THEN Return(st, Failed("IndexError: too many indices for array"))
         ELSE [st EXCEPT !.arr = SwapPlanes(@), !.log = Append(@, "reorder"),
                         !.path = _get_export_file_path(ds, target_root)]
    ELSE [st EXCEPT !.path = _get_export_file_path(ds, target_root)]

\* Lines 92-100 with the multiframe test moved after the pixel processing.
PixelsAndProcess_late_check(ds, target_root, st, u) ==
    IF "PixelData" \notin ds.has
    THEN Return(st, Failed("AttributeError: PixelData"))
    ELSE LET st1 == _pixel_process(ds,
                       [st EXCEPT !.arr = [shape |-> ds.shape, v |-> ds.pixels,
                                           den |-> 1, nan |-> FALSE],
                                  !.log = Append(@, "pixel_array")], u)
         IN  IF Len(st1.arr.shape) = 3 /\ st1.arr.shape[3] # 3
             THEN Return(st1, Skipped("Multiframe images are"))
             ELSE ReorderAndPath(ds, target_root, st1)

\* Lines 92-100: ds.pixel_array.astype(float), the multiframe test, the pipeline.
PixelsAndProcess(ds, target_root, st, u) ==
    IF "PixelData" \notin ds.has
    THEN Return(st, Failed("AttributeError: PixelData"))
    ELSE LET st1 == [st EXCEPT !.arr = [shape |-> ds.shape, v |-> ds.pixels,
                                        den |-> 1, nan |-> FALSE],
                               !.log = Append(@, "pixel_array")]
         IN  IF Len(st1.arr.shape) = 3 /\ st1.arr.shape[3] # 3
             THEN Return(st1, Skipped("Multiframe images are"))
             ELSE ReorderAndPath(ds, target_root, _pixel_process(ds, st1, u))

\* Lines 83-108, everything a task does before it touches the output
\* directory.  ds.SOPClassUID on a dataset without the element raises
\* AttributeError; every exception ends in the handler of line 118.
DsLocal(ds, target_root, u) ==
    LET st0 == [FreshTask EXCEPT !.log = <<"dcmread">>]
    IN  IF ~ds.readable
        THEN Return(st0, Failed("dcmread"))
        ELSE LET st1 == [st0 EXCEPT !.log = Append(@, "_is_unsupported")]
             IN  IF "SOPClassUID" \notin ds.has
                 THEN Return(st1, Failed("AttributeError: SOPClassUID"))
                 ELSE IF _is_unsupported(ds).unsupported
                 THEN Return(st1, Skipped(_is_unsupported(ds).name \o " is"))
                 ELSE PixelsAndProcess(ds, target_root, st1, u)

\* --------------------------------------------------------------- datasets

SingleValue(x) == [multi |-> FALSE, vals |-> <<x>>]

\* A plain two-pixel grayscale CT slice, series 3, instance 12.
BaseDs ==
    [readable |-> TRUE,
     has |-> {"SOPClassUID", "PixelData", "PhotometricInterpretation",
              "SeriesNumber", "InstanceNumber"},
     SOPClassUID |-> CT_UID,
     shape |-> <<1, 2>>, pixels |-> <<0, 1>>,
     RescaleSlope |-> 1, RescaleIntercept |-> 0,
     VOILUTFunction |-> "LINEAR",
     WindowCenter |-> SingleValue(1), WindowWidth |-> SingleValue(2),
     PhotometricInterpretation |-> "MONOCHROME2",
     SeriesNumber |-> 3, InstanceNumber |-> 12]

UnreadableDs == [BaseDs EXCEPT !.readable = FALSE]

PdfDs == [BaseDs EXCEPT !.SOPClassUID = PDF_UID, !.has = {"SOPClassUID"}]

\* The decoded pixel arrays: 1 x 2 grayscale, 1 x 1 x 3 colour, and a
\* multiframe 1 x 1 x 2 volume.
PixelChoices ==
    {[shape |-> <<1, 2>>, pixels |-> p] : p \in [1..2 -> 0..MaxVal]}
    \cup {[shape |-> <<1, 1, 3>>, pixels |-> p] : p \in [1..3 -> 0..MaxVal]}
    \cup {[shape |-> <<1, 1, 2>>, pixels |-> <<0, MaxVal>>]}

RescaleChoices ==
    {[has |-> {}, slope |-> 1, intercept |-> 0],
     [has |-> {"RescaleSlope"}, slope |-> 2, intercept |-> 0],
     [has |-> {"RescaleSlope", "RescaleIntercept"}, slope |-> 2, intercept |-> -1]}

\* No window; a single-valued window; a multi-valued one (the first value
\* counts); a SIGMOID function declared without window attributes.
VOIChoices ==
    {[has |-> {}, fn |-> "LINEAR", center |-> SingleValue(1), width |-> SingleValue(2)],
     [has |-> {"WindowCenter", "WindowWidth"}, fn |-> "LINEAR",
      center |-> SingleValue(1), width |-> SingleValue(2)],
     [has |-> {"WindowCenter", "WindowWidth", "VOILUTFunction"}, fn |-> "LINEAR",
      center |-> [multi |-> TRUE, vals |-> <<2, 40>>],
      width |-> [multi |-> TRUE, vals |-> <<4, 80>>]],
     [has |-> {"VOILUTFunction"}, fn |-> "SIGMOID",
      center |-> SingleValue(1), width |-> SingleValue(2)]}

PhotometricChoices ==
    {[has |-> {}, pi |-> "MONOCHROME2"],
     [has |-> {"PhotometricInterpretation"}, pi |-> "MONOCHROME1"],
     [has |-> {"PhotometricInterpretation"}, pi |-> "MONOCHROME2"],
     [has |-> {"PhotometricInterpretation"}, pi |-> "RGB"],
     [has |-> {"PhotometricInterpretation"}, pi |-> "YBR_FULL_422"],
     [has |-> {"PhotometricInterpretation"}, pi |-> "PALETTE COLOR"]}

\* Datasets that vary everything the pixel pipeline reads.
PixelDatasets ==
    {[BaseDs EXCEPT
        !.has = {"SOPClassUID", "PixelData", "SeriesNumber", "InstanceNumber"}
                \cup r.has \cup w.has \cup c.has,
        !.shape = px.shape, !.pixels = px.pixels,
        !.RescaleSlope = r.slope, !.RescaleIntercept = r.intercept,
        !.VOILUTFunction = w.fn, !.WindowCenter = w.center, !.WindowWidth = w.width,
        !.PhotometricInterpretation = c.pi] :
     px \in PixelChoices, r \in RescaleChoices, w \in VOIChoices,
     c \in PhotometricChoices}

\* Datasets that vary what the gate, the pixel access and the export path
\* read: the SOP class (or none), pixel data or none, the shape, the numbers.
HeaderDatasets ==
    {UnreadableDs}
    \cup {[BaseDs EXCEPT !.has = (BaseDs.has \ {"SOPClassUID", "PixelData"}) \cup h,
                         !.SOPClassUID = uid, !.shape = sh] :
          h \in SUBSET {"SOPClassUID", "PixelData"},
          uid \in {PDF_UID, KOS_UID, CT_UID},
          sh \in {<<1, 2>>, <<1, 1, 2>>}}
    \cup {[BaseDs EXCEPT !.has = (BaseDs.has \ {"SeriesNumber", "InstanceNumber"}) \cup h,
                         !.InstanceNumber = n] :
          h \in SUBSET {"SeriesNumber", "InstanceNumber"}, n \in {12, 13}}

\* One dataset per outcome, for the files of a batch.
BatchDatasets == {BaseDs, PdfDs, UnreadableDs}

\* The byte a cast of NaN to uint8 may leave: 0 on x86-64 and AArch64 builds,
\* other bytes where the conversion saturates or keeps low bits of an
\* indefinite value.
NaNCastBytes == {0, 128, 255}

\* ------------------------------------------------------------- file system

\* The input paths a caller may name.  "dir" holds MaxDirFiles DICOM files
\* (numbered in path order, the first one named in upper case) and a text
\* file; "empty" holds a text file only; "s.DCM" is a DICOM file whose path
\* sorts after those of "dir".
InputPaths == {"missing", "notes.txt", "s.DCM", "dir", "empty"}

Exists(p) == p # "missing"

IsFile(p) == p \in {"notes.txt", "s.DCM"}

IsDir(p) == p \in {"dir", "empty"}

Suffix(p) == IF p = "s.DCM" THEN ".DCM" ELSE IF p = "notes.txt" THEN ".txt" ELSE ""

Lower(x) == IF x = ".DCM" THEN ".dcm" ELSE x

\* Path(p).parent: every input path is a name in the working directory.
Parent(p) == "."

SingleFileId == MaxDirFiles + 1

FileIds == 1..SingleFileId

\* The file names os.walk yields under a directory: [file, name's ending].
DirEntries(p) ==
    IF p = "dir"
    THEN {[file |-> 0, ext |-> ".txt"]}
         \cup {[file |-> f, ext |-> IF f = 1 THEN ".DCM" ELSE ".dcm"] : f \in 1..MaxDirFiles}
    ELSE IF p = "empty" THEN {[file |-> 0, ext |-> ".txt"]}
    ELSE {}

\* The orders in which a walk may yield a set of names.
Orders(S) ==
    {o \in [1..Cardinality(S) -> S] : \A i, j \in 1..Cardinality(S) : o[i] = o[j] => i = j}

\* [Path(root) / f for f in files if f.lower().endswith('.dcm')]
RECURSIVE DcmFilesOf(_)
DcmFilesOf(names) ==
    IF names = << >> THEN << >>
    ELSE (IF Lower(Head(names).ext) = ".dcm" THEN <<Head(names).file>> ELSE << >>)
         \o DcmFilesOf(Tail(names))

RECURSIVE InsertSorted(_, _)
InsertSorted(s, x) ==
    IF s = << >> THEN <<x>>
    ELSE IF x < Head(s) THEN <<x>> \o s
    ELSE <<Head(s)>> \o InsertSorted(Tail(s), x)

\* list.sort() on paths; a file's number is its rank in path order.
RECURSIVE SortPaths(_)
SortPaths(s) == IF s = << >> THEN << >> ELSE InsertSorted(SortPaths(Tail(s)), Head(s))

\* ------------------------------------------------------------------ state

VARIABLES
    origin_input,      \* the origin argument: [isList, paths]
    target_root,       \* the target_root argument: "None" or a directory
    multiprocessing,   \* the multiprocessing argument
    fileDs,            \* what dcmread finds in each file
    fsMode,            \* "ok" | "nocreate" (mkdir of a new directory is refused)
                       \*      | "nowrite" (files cannot be created)
    dirs,              \* the directories that exist
    disk,              \* the bitmaps that exist: [path, img]
    phase,             \* "setup" | "run" | "done" | "raised"
    k,                 \* position of the origin loop of line 150
    dicom_file_list,
    walked,            \* the directories os.walk has been run on, in order
    root_folder,
    error,             \* the exception that left _dicom_convertor
    tasks,             \* one per entry of dicom_file_list: [file, pc, st]
    submitted,         \* the futures of line 196 exist
    results,
    successful,
    failed,
    ret                \* "none" | "True" | "False"

vars ==
    <<origin_input, target_root, multiprocessing, fileDs, fsMode, dirs, disk, phase, k,
      dicom_file_list, walked, root_folder, error, tasks, submitted, results,
      successful, failed, ret>>

inputs == <<origin_input, target_root, multiprocessing, fileDs, fsMode>>

NoError == [type |-> "none", path |-> ""]

\* origin: a single path, or an ordered collection of at most MaxInputs paths.
Origins ==
    {[isList |-> FALSE, paths |-> <<p>>] : p \in InputPaths}
    \cup {[isList |-> TRUE, paths |-> ps] :
          ps \in UNION {[1..n -> InputPaths] : n \in 1..MaxInputs}}

\* Lines 142-145.
OriginList(oi) == IF oi.isList THEN [i \in DOMAIN oi.paths |-> oi.paths[i]] ELSE <<oi.paths[1]>>

FsConfigs ==
    {[mode |-> "ok", out |-> FALSE], [mode |-> "ok", out |-> TRUE],
     [mode |-> "nocreate", out |-> FALSE], [mode |-> "nowrite", out |-> TRUE]}

\* One file with any of the pixel datasets; or one file with any of the header
\* datasets on any file system, with or without a target root; or a batch over
\* any origin, the files of "dir" holding one dataset per outcome.
Init ==
    /\ \/ /\ origin_input = [isList |-> FALSE, paths |-> <<"s.DCM">>]
          /\ multiprocessing = TRUE
          /\ target_root = "out"
          /\ \E d \in PixelDatasets :
                fileDs = [f \in FileIds |-> IF f = SingleFileId THEN d ELSE BaseDs]
          /\ fsMode = "ok"
          /\ dirs = {"."}
       \/ /\ origin_input = [isList |-> FALSE, paths |-> <<"s.DCM">>]
          /\ multiprocessing = TRUE
          /\ target_root \in {"None", "out"}
          /\ \E d \in HeaderDatasets :
                fileDs = [f \in FileIds |-> IF f = SingleFileId THEN d ELSE BaseDs]
          /\ \E c \in FsConfigs :
                /\ fsMode = c.mode
                /\ dirs = {"."} \cup (IF c.out THEN {"out"} ELSE {})
       \/ /\ origin_input \in Origins
          /\ multiprocessing \in BOOLEAN
          /\ target_root = "out"
          /\ \E g \in [1..MaxDirFiles -> BatchDatasets] :
                fileDs = [f \in FileIds |-> IF f = SingleFileId THEN BaseDs ELSE g[f]]
          /\ fsMode = "ok"
          /\ dirs = {"."}
    /\ disk = {}
    /\ phase = "setup"
    /\ k = 1
    /\ dicom_file_list = << >>
    /\ walked = << >>
    /\ root_folder = ""
    /\ error = NoError
    /\ tasks = << >>
    /\ submitted = FALSE
    /\ results = << >>
    /\ successful = 0
    /\ failed = 0
    /\ ret = "none"

\* ------------------------------------------------- _get_root_get_dicom_file_list

\* The loop without the existence test: a missing origin is neither a file nor
\* a directory and contributes nothing.
ResolveOrigin_no_existence_test ==
    /\ phase = "setup"
    /\ k <= Len(OriginList(origin_input))
    /\ LET origin == OriginList(origin_input)[k]
       IN  \E order \in Orders(DirEntries(origin)) :
             IF IsFile(origin) /\ Lower(Suffix(origin)) # ".dcm"
             THEN /\ phase' = "raised"
                  /\ error' = [type |-> "Exception: Input file type should be a DICOM file",
                               path |-> origin]
                  /\ UNCHANGED <<k, dicom_file_list, walked>>
             ELSE /\ k' = k + 1
                  /\ dicom_file_list' =
                        dicom_file_list
                        \o (IF IsFile(origin) THEN <<SingleFileId>> ELSE DcmFilesOf(order))
                  /\ walked' = IF IsDir(origin) THEN Append(walked, origin) ELSE walked
                  /\ UNCHANGED <<phase, error>>
    /\ UNCHANGED <<inputs, dirs, disk, root_folder, tasks, submitted, results,
                   successful, failed, ret>>

\* One turn of the loop of lines 150-165 over an origin that does not exist,
\* is a file, or is a directory (walked in the order the system yields).
ResolveOrigin ==
    /\ phase = "setup"
    /\ k <= Len(OriginList(origin_input))
    /\ LET origin == OriginList(origin_input)[k]
       IN  \E order \in Orders(DirEntries(origin)) :
             IF ~Exists(origin)
             THEN /\ phase' = "raised"
                  /\ error' = [type |-> "OSError: does not exist", path |-> origin]
                  /\ UNCHANGED <<k, dicom_file_list, walked>>
             ELSE IF IsFile(origin) /\ Lower(Suffix(origin)) # ".dcm"
             THEN /\ phase' = "raised"
                  /\ error' = [type |-> "Exception: Input file type should be a DICOM file",
                               path |-> origin]
                  /\ UNCHANGED <<k, dicom_file_list, walked>>
             ELSE /\ k' = k + 1
                  /\ dicom_file_list' =
                        dicom_file_list
                        \o (IF IsFile(origin) THEN <<SingleFileId>> ELSE DcmFilesOf(order))
                  /\ walked' = IF IsDir(origin) THEN Append(walked, origin) ELSE walked
                  /\ UNCHANGED <<phase, error>>
    /\ UNCHANGED <<inputs, dirs, disk, root_folder, tasks, submitted, results,
                   successful, failed, ret>>

\* Lines 171-177.
RootFolder(oi, tr) == IF tr = "None" THEN Parent(oi.paths[1]) ELSE tr

\* Lines 167-179 and 184-190: the sort, the target root, and the return of
\* False when nothing was found.
FinishSetup ==
    /\ phase = "setup"
    /\ k > Len(OriginList(origin_input))
    /\ dicom_file_list' = SortPaths(dicom_file_list)
    /\ root_folder' = RootFolder(origin_input, target_root)
    /\ IF dicom_file_list = << >>
       THEN /\ phase' = "done"
            /\ ret' = "False"
            /\ tasks' = tasks
       ELSE /\ phase' = "run"
            /\ ret' = ret
            /\ tasks' = [i \in 1..Len(dicom_file_list) |->
                           [file |-> SortPaths(dicom_file_list)[i], pc |-> "queued",
                            st |-> FreshTask]]
    /\ UNCHANGED <<inputs, dirs, disk, k, walked, error, submitted, results,
                   successful, failed>>

\* ---------------------------------------------------------------- the tasks

\* Line 193.
Parallel == multiprocessing /\ Len(dicom_file_list) > 1

Running(i) == tasks[i].pc \in {"local", "mkdir", "imwrite"}

\* Path.mkdir(dir, exist_ok=True, parents=True).
MkdirRaises(ds, mode, dir) == dir \notin ds /\ mode = "nocreate"

\* cv2.imwrite(path, img): the file is created, or imwrite returns False and
\* leaves nothing.
ImwriteEffect(dk, mode, path, img) ==
    IF mode = "nowrite" THEN dk
    ELSE {e \in dk : e.path # path} \cup {[path |-> path, img |-> img]}

\* Lines 83-108 of task i.
TaskLocal(i) ==
    /\ phase = "run"
    /\ tasks[i].pc = "local"
    /\ \E u \in NaNCastBytes :
          LET st == DsLocal(fileDs[tasks[i].file], root_folder, u)
          IN  tasks' = [tasks EXCEPT ![i].st = st,
                                     ![i].pc = IF st.result = Pending THEN "mkdir" ELSE "done"]
    /\ UNCHANGED <<inputs, dirs, disk, phase, k, dicom_file_list, walked, root_folder,
                   error, submitted, results, successful, failed, ret>>

\* Line 111 of task i; a refusal is an exception, caught at line 118.
TaskMkdir(i) ==
    /\ phase = "run"
    /\ tasks[i].pc = "mkdir"
    /\ LET dir == tasks[i].st.path.dir
       IN  IF MkdirRaises(dirs, fsMode, dir)
           THEN /\ tasks' = [tasks EXCEPT ![i].st.result = Failed("PermissionError"),
                                          ![i].pc = "done"]
                /\ dirs' = dirs
           ELSE /\ tasks' = [tasks EXCEPT ![i].st.log = Append(@, "mkdir"),
                                          ![i].pc = "imwrite"]
                /\ dirs' = dirs \cup {dir}
    /\ UNCHANGED <<inputs, disk, phase, k, dicom_file_list, walked, root_folder, error,
                   submitted, results, successful, failed, ret>>

\* Lines 114-116 of task i: imwrite's return value is dropped and the task
\* returns True.
TaskImwrite(i) ==
    /\ phase = "run"
    /\ tasks[i].pc = "imwrite"
    /\ disk' = ImwriteEffect(disk, fsMode, tasks[i].st.path, tasks[i].st.arr)
    /\ tasks' = [tasks EXCEPT ![i].st.log = Append(@, "imwrite"),
                              ![i].st.result = Success,
                              ![i].pc = "done"]
    /\ UNCHANGED <<inputs, dirs, phase, k, dicom_file_list, walked, root_folder, error,
                   submitted, results, successful, failed, ret>>

\* ------------------------------------------------------------ _dicom_convertor

\* Lines 195-197: every file is handed to the pool.
Submit ==
    /\ phase = "run"
    /\ Parallel
    /\ ~submitted
    /\ submitted' = TRUE
    /\ UNCHANGED <<inputs, dirs, disk, phase, k, dicom_file_list, walked, root_folder,
                   error, tasks, results, successful, failed, ret>>

\* A free worker of the pool takes the oldest work item.
WorkerStart(i) ==
    /\ phase = "run"
    /\ submitted
    /\ tasks[i].pc = "queued"
    /\ \A j \in 1..(i - 1) : tasks[j].pc # "queued"
    /\ Cardinality({j \in DOMAIN tasks : Running(j)}) < MaxWorkers
    /\ tasks' = [tasks EXCEPT ![i].pc = "local"]
    /\ UNCHANGED <<inputs, dirs, disk, phase, k, dicom_file_list, walked, root_folder,
                   error, submitted, results, successful, failed, ret>>

\* A gather that reads the next task's result without waiting for it.
Gather_without_waiting ==
    /\ phase = "run"
    /\ submitted
    /\ Len(results) < Len(tasks)
    /\ results' = Append(results, tasks[Len(results) + 1].st.result)
    /\ UNCHANGED <<inputs, dirs, disk, phase, k, dicom_file_list, walked, root_folder,
                   error, tasks, submitted, successful, failed, ret>>

\* Line 198: future.result() of the next future, in file order; it returns
\* once that task has finished.
Gather ==
    /\ phase = "run"
    /\ submitted
    /\ Len(results) < Len(tasks)
    /\ tasks[Len(results) + 1].pc = "done"
    /\ results' = Append(results, tasks[Len(results) + 1].st.result)
    /\ UNCHANGED <<inputs, dirs, disk, phase, k, dicom_file_list, walked, root_folder,
                   error, tasks, submitted, successful, failed, ret>>

\* Line 202: the call of _ds_to_file for the next file, in line.
SeqCall ==
    /\ phase = "run"
    /\ ~Parallel
    /\ Len(results) < Len(tasks)
    /\ tasks[Len(results) + 1].pc = "queued"
    /\ tasks' = [tasks EXCEPT ![Len(results) + 1].pc = "local"]
    /\ UNCHANGED <<inputs, dirs, disk, phase, k, dicom_file_list, walked, root_folder,
                   error, submitted, results, successful, failed, ret>>

\* Line 202: its return.
SeqReturn ==
    /\ phase = "run"
    /\ ~Parallel
    /\ Len(results) < Len(tasks)
    /\ tasks[Len(results) + 1].pc = "done"
    /\ results' = Append(results, tasks[Len(results) + 1].st.result)
    /\ UNCHANGED <<inputs, dirs, disk, phase, k, dicom_file_list, walked, root_folder,
                   error, tasks, submitted, successful, failed, ret>>

\* The count with "if result" in place of "if result is True": a message is a
\* non-empty string, which is truthy.
CountTrue_truthy(rs) == Cardinality({i \in DOMAIN rs : rs[i].ok \/ rs[i].text # ""})

\* sum(1 for result in results if result is True)
CountTrue(rs) == Cardinality({i \in DOMAIN rs : rs[i].ok})

\* Lines 204-217.
Summarise ==
    /\ phase = "run"
    /\ Len(results) = Len(tasks)
    /\ successful' = CountTrue(results)
    /\ failed' = Len(results) - CountTrue(results)
    /\ ret' = IF CountTrue(results) > 0 THEN "True" ELSE "False"
    /\ phase' = "done"
    /\ UNCHANGED <<inputs, dirs, disk, k, dicom_file_list, walked, root_folder, error,
                   tasks, submitted, results>>

Next ==
    \/ ResolveOrigin
    \/ FinishSetup
    \/ Submit
    \/ \E i \in DOMAIN tasks : WorkerStart(i)
    \/ Gather
    \/ SeqCall
    \/ SeqReturn
    \/ \E i \in DOMAIN tasks : TaskLocal(i)
    \/ \E i \in DOMAIN tasks : TaskMkdir(i)
    \/ \E i \in DOMAIN tasks : TaskImwrite(i)
    \/ Summarise

Spec == Init /\ [][Next]_vars

\* ---------------------------------------------------- the sequential reference

\* _ds_to_file run from its first line to its return with nothing in between:
\* what it returns and the directories that exist afterwards.
_ds_to_file(ds, root, mode, ds_dirs) ==
    LET st == DsLocal(ds, root, 0)
    IN  IF st.result # Pending THEN [result |-> st.result, dirs |-> ds_dirs]
        ELSE IF MkdirRaises(ds_dirs, mode, st.path.dir)
        THEN [result |-> Failed("PermissionError"), dirs |-> ds_dirs]
        ELSE [result |-> Success, dirs |-> ds_dirs \cup {st.path.dir}]

\* [_ds_to_file(file_path, target_root) for file_path in dicom_file_list]
RECURSIVE SequentialResults(_, _)
SequentialResults(files, ds_dirs) ==
    IF files = << >> THEN << >>
    ELSE LET r == _ds_to_file(fileDs[Head(files)], root_folder, fsMode, ds_dirs)
         IN  <<r.result>> \o SequentialResults(Tail(files), r.dirs)

\* ------------------------------------------------------------------ claims

Has(log, x) == \E j \in DOMAIN log : log[j] = x

IsPrefix(s, t) == Len(s) <= Len(t) /\ \A j \in DOMAIN s : s[j] = t[j]

Ds(i) == fileDs[tasks[i].file]

Finished(i) == tasks[i].pc = "done"

NumericSteps == {"modality", "voi", "normalize", "invert", "quantize", "reorder"}

\* The bitmap name the spec gives a dataset.
BitmapName(ds) ==
    IF "SeriesNumber" \in ds.has
    THEN IF "InstanceNumber" \in ds.has
         THEN IF ds.InstanceNumber = 12 THEN "3_12.bmp" ELSE "3_13.bmp"
         ELSE "3_Ins.bmp"
    ELSE IF "InstanceNumber" \in ds.has
         THEN IF ds.InstanceNumber = 12 THEN "Ser_12.bmp" ELSE "Ser_13.bmp"
         ELSE "Ser_Ins.bmp"

OnDisk(dir, name) == \E e \in disk : e.path = [dir |-> dir, name |-> name]

\* C1 (as claimed): every discovered file gets one outcome, nothing raises out
\* of the batch once processing has begun, and a task that hit a failure, a
\* write that left no file included, is recorded as Failed.
C1_FailureIsRecordedAsFailed ==
    /\ phase = "raised" => tasks = << >>
    /\ phase = "done" /\ tasks # << >> =>
          /\ Len(results) = Len(tasks)
          /\ \A i \in DOMAIN results : results[i].kind \in {"Success", "Skipped", "Failed"}
    /\ \A i \in DOMAIN tasks :
          Finished(i) /\ Has(tasks[i].st.log, "imwrite")
          /\ ~OnDisk(tasks[i].st.path.dir, tasks[i].st.path.name)
          => tasks[i].st.result.kind = "Failed"

\* C2: when _dicom_convertor has returned, it returned True exactly when some
\* file's outcome is Success; with no file discovered it returned False, wrote
\* nothing and raised nothing; the two reported counts add up to the number of
\* discovered files.
C2_ReturnsTrueIffSomeSuccess ==
    /\ phase = "done" =>
          /\ ret \in {"True", "False"}
          /\ ret = "True" <=> \E i \in DOMAIN tasks : tasks[i].st.result.kind = "Success"
          /\ successful + failed = Len(tasks)
          /\ Len(tasks) = Len(dicom_file_list)
          /\ successful = Cardinality({i \in DOMAIN tasks : tasks[i].st.result.kind = "Success"})
    /\ phase # "setup" /\ k > Len(OriginList(origin_input)) /\ dicom_file_list = << >> =>
          /\ phase = "done"
          /\ ret = "False"
          /\ error = NoError
          /\ disk = {}
          /\ dirs = {"."}
          /\ tasks = << >>

\* C2 witness: a finished batch with a converted file beside files that were not.
C2_Witness ==
    /\ phase = "done"
    /\ ret = "True"
    /\ successful >= 1
    /\ failed >= 2
    /\ \E i \in DOMAIN tasks : tasks[i].st.result.kind = "Skipped"
    /\ \E i \in DOMAIN tasks : tasks[i].st.result.kind = "Failed"

\* The empty batch of C2 is reachable: an existing directory without DICOM files.
C2_EmptyBatchReached == phase = "done" /\ dicom_file_list = << >> /\ ret = "False"

\* The inputs that make the loop of line 150 raise: a missing path, or a file
\* whose suffix is not .dcm.
BadOrigin(p) == ~Exists(p) \/ (IsFile(p) /\ Lower(Suffix(p)) # ".dcm")

\* The position of the first such input (0: none).
FirstBad ==
    LET ol == OriginList(origin_input)
        bad == {j \in DOMAIN ol : BadOrigin(ol[j])}
    IN  IF bad = {} THEN 0 ELSE CHOOSE j \in bad : \A m \in bad : j <= m

\* The directories among the first n inputs, in order.
RECURSIVE DirsAmong(_, _)
DirsAmong(ol, n) ==
    IF n = 0 THEN << >>
    ELSE DirsAmong(ol, n - 1) \o (IF IsDir(ol[n]) THEN <<ol[n]>> ELSE << >>)

\* C3 (as claimed): with a missing path anywhere among the inputs, no directory
\* is ever walked and no file processed, and the invocation can only end in a
\* not-found error naming a missing path.
C3_MissingAnywhereStopsBeforeDiscovery ==
    (\E j \in DOMAIN OriginList(origin_input) : ~Exists(OriginList(origin_input)[j])) =>
        /\ walked = << >>
        /\ tasks = << >>
        /\ phase \notin {"run", "done"}
        /\ phase = "raised" =>
              error.type = "OSError: does not exist" /\ ~Exists(error.path)

\* C3 (amended): when the first input that is missing or wrongly typed is a
\* missing path, the invocation ends in the not-found error naming that path,
\* no file is ever processed, and only the directories placed before that
\* path are walked; nothing is walked when it is the only or the first input.
C3_FirstMissingStopsTheRest ==
    LET ol == OriginList(origin_input)
    IN  FirstBad # 0 /\ ~Exists(ol[FirstBad]) =>
           /\ phase \in {"setup", "raised"}
           /\ tasks = << >> /\ results = << >> /\ disk = {} /\ ret = "none"
           /\ k <= FirstBad
           /\ IsPrefix(walked, DirsAmong(ol, FirstBad - 1))
           /\ phase = "raised" =>
                 /\ error = [type |-> "OSError: does not exist", path |-> ol[FirstBad]]
                 /\ k = FirstBad
                 /\ walked = DirsAmong(ol, FirstBad - 1)

\* C3 witness: the not-found error for a path that follows a directory, which
\* has been walked by then.
C3_Witness ==
    /\ phase = "raised"
    /\ error.type = "OSError: does not exist"
    /\ k > 1
    /\ walked # << >>
    /\ dicom_file_list # << >>

\* The not-found error of a first (or only) input: nothing has been walked.
C3_FirstInputMissingReached ==
    phase = "raised" /\ error.type = "OSError: does not exist" /\ k = 1 /\ walked = << >>

\* C4 (as claimed): the presentation normalization never divides by zero and
\* no NaN reaches the cast to 8 bits; a flat array comes out as all zeros.
C4_FlatArrayIsHandled ==
    \A i \in DOMAIN tasks :
        /\ ~tasks[i].st.divByZero
        /\ ~tasks[i].st.nanIn
        /\ Has(tasks[i].st.log, "quantize") /\ Cardinality(Range(Ds(i).pixels)) = 1
           => \A j \in DOMAIN tasks[i].st.arr.v : tasks[i].st.arr.v[j] = 0

\* What the code does with a flat array: 0/0 makes NaN, raises nothing, and the
\* cast leaves whatever byte the build produces; the file still converts.
C4_FlatArrayReachesTheCastAsNaN ==
    \E i \in DOMAIN tasks :
        /\ Finished(i)
        /\ tasks[i].st.divByZero /\ tasks[i].st.nanIn
        /\ tasks[i].st.result = Success
        /\ \E j \in DOMAIN tasks[i].st.arr.v : tasks[i].st.arr.v[j] # 0

\* A task decoded a multiframe array: three dimensions, the last one not 3.
DecodedMultiframe(i) ==
    /\ Has(tasks[i].st.log, "pixel_array")
    /\ Len(Ds(i).shape) = 3
    /\ Ds(i).shape[3] # 3

\* C5: a task whose decoded pixel array is a multiframe ends Skipped with the
\* multiframe reason, never Failed; no numeric step runs for it, before or
\* after, and it writes no file.
C5_MultiframeIsSkippedBeforeNumericWork ==
    \A i \in DOMAIN tasks :
        DecodedMultiframe(i) =>
            /\ Finished(i)
            /\ tasks[i].st.result.kind = "Skipped"
            /\ tasks[i].st.result.text
                  = "cannot be converted. Multiframe images are currently not supported"
            /\ \A j \in DOMAIN tasks[i].st.log : tasks[i].st.log[j] \notin NumericSteps
            /\ ~Has(tasks[i].st.log, "mkdir") /\ ~Has(tasks[i].st.log, "imwrite")
            /\ tasks[i].st.path = NoPath
            /\ tasks[i].st.arr.v = Ds(i).pixels
            /\ disk = {}

\* C5 witness: a task that decoded a 1 x 1 x 2 array and was skipped.
C5_Witness ==
    \E i \in DOMAIN tasks :
        /\ DecodedMultiframe(i)
        /\ Ds(i).shape = <<1, 1, 2>>
        /\ tasks[i].st.result.kind = "Skipped"
        /\ phase = "done"

\* The dataset carries one of the two SOP classes the gate knows.
KnownUnsupported(ds) ==
    "SOPClassUID" \in ds.has /\ ds.SOPClassUID \in {PDF_UID, KOS_UID}

UnsupportedName(ds) ==
    IF ds.SOPClassUID = PDF_UID THEN "Encapsulated PDF Storage"
    ELSE "Key Object Selection Document"

\* A gated task: Skipped with the class's name, and nothing after the gate ran.
SkippedAtGate(i) ==
    /\ Finished(i)
    /\ tasks[i].st.result.kind = "Skipped"
    /\ tasks[i].st.result.text
          = "cannot be converted. " \o UnsupportedName(Ds(i)) \o " is currently not supported"
    /\ tasks[i].st.log = <<"dcmread", "_is_unsupported">>
    /\ tasks[i].st.arr = EmptyArr
    /\ tasks[i].st.path = NoPath

\* The gate answered "supported": the task went on to the pixel data.
PassedGate(i) ==
    \/ Has(tasks[i].st.log, "pixel_array")
    \/ tasks[i].st.result = Failed("AttributeError: PixelData")

\* C6 (as claimed): the gate names the SOP class exactly for the two known
\* UIDs and answers "supported" for every other dataset; a gated dataset ends
\* Skipped with no pixel access, no pipeline step and no write.
C6_GateSupportsEveryOtherDataset ==
    \A i \in DOMAIN tasks :
        Has(tasks[i].st.log, "_is_unsupported") =>
            IF KnownUnsupported(Ds(i)) THEN SkippedAtGate(i) ELSE PassedGate(i)

\* C6 (amended): as claimed for every dataset that carries a SOPClassUID; on a
\* dataset without one the gate raises, and the task ends Failed.
C6_GateSupportsEveryOtherUID ==
    \A i \in DOMAIN tasks :
        Has(tasks[i].st.log, "_is_unsupported") =>
            IF KnownUnsupported(Ds(i)) THEN SkippedAtGate(i)
            ELSE IF "SOPClassUID" \in Ds(i).has THEN PassedGate(i)
            ELSE /\ Finished(i)
                 /\ tasks[i].st.result = Failed("AttributeError: SOPClassUID")
                 /\ tasks[i].st.log = <<"dcmread", "_is_unsupported">>

\* C6 witness: both known classes have been gated, each under its own name.
C6_Witness ==
    /\ phase = "done"
    /\ \E i \in DOMAIN tasks :
          /\ Ds(i).SOPClassUID = KOS_UID
          /\ SkippedAtGate(i)
          /\ tasks[i].st.result.text
                = "cannot be converted. Key Object Selection Document is currently not supported"

\* The Encapsulated PDF class is gated under its name too.
C6_PdfGatedReached ==
    \E i \in DOMAIN tasks :
        /\ Ds(i).SOPClassUID = PDF_UID
        /\ SkippedAtGate(i)
        /\ tasks[i].st.result.text
              = "cannot be converted. Encapsulated PDF Storage is currently not supported"

Inverts(ds) ==
    "PhotometricInterpretation" \in ds.has /\ ds.PhotometricInterpretation = "MONOCHROME1"

Reorders(ds) ==
    "PhotometricInterpretation" \in ds.has /\ ds.PhotometricInterpretation \in ReorderList

\* The order the spec fixes for a converted file, the two conditional steps
\* present when the dataset calls for them.
StepOrder(ds) ==
    <<"dcmread", "_is_unsupported", "pixel_array", "modality", "voi", "normalize">>
    \o (IF Inverts(ds) THEN <<"invert">> ELSE << >>)
    \o <<"quantize">>
    \o (IF Reorders(ds) THEN <<"reorder">> ELSE << >>)
    \o <<"mkdir", "imwrite">>

\* The dataset's VOI step leaves the samples as they are.
NoWindowing(ds) ==
    \/ ("VOILUTFunction" \in ds.has /\ ds.VOILUTFunction = "SIGMOID")
    \/ ~("WindowCenter" \in ds.has /\ "WindowWidth" \in ds.has)

\* The 8-bit value of raw sample x of an array with extremes lo < hi, without
\* windowing: the rescale of step 1 has a positive slope and cancels in step 3.
EightBit(ds, x, lo, hi) ==
    IF Inverts(ds) THEN (255 * (hi - x)) \div (hi - lo) ELSE (255 * (x - lo)) \div (hi - lo)

\* C7: the steps of a task run in the fixed order modality, VOI, normalization,
\* inversion, quantization, plane reorder, write: what a task has done so far
\* is always a beginning of that order, a converted file has done all of it
\* once, and without windowing its bitmap holds the values that order gives.
C7_StepsRunInFixedOrder ==
    \A i \in DOMAIN tasks :
        /\ IsPrefix(tasks[i].st.log, StepOrder(Ds(i)))
        /\ tasks[i].st.result = Success =>
              /\ tasks[i].st.log = StepOrder(Ds(i))
              /\ tasks[i].st.arr.den = 1 /\ ~tasks[i].st.arr.nan
              /\ \A j \in DOMAIN tasks[i].st.arr.v : tasks[i].st.arr.v[j] \in 0..255
              /\ NoWindowing(Ds(i)) /\ ~tasks[i].st.divByZero =>
                    LET px == Ds(i).pixels
                        lo == SeqMin(px)
                        hi == SeqMax(px)
                        out == tasks[i].st.arr.v
                    IN  \A j \in DOMAIN px :
                            out[IF Reorders(Ds(i)) THEN 4 - j ELSE j] = EightBit(Ds(i), px[j], lo, hi)

\* C7 witness: a converted MONOCHROME1 file with a sample strictly between the
\* extremes, where the place of the inversion shows in the value.
C7_Witness ==
    \E i \in DOMAIN tasks :
        /\ tasks[i].st.result = Success
        /\ Has(tasks[i].st.log, "invert")
        /\ NoWindowing(Ds(i))
        /\ Ds(i).pixels = <<0, 1, 2>>
        /\ tasks[i].st.arr.v = <<255, 127, 0>>

\* A converted colour file has had its planes reordered last.
C7_ReorderReached ==
    \E i \in DOMAIN tasks :
        /\ tasks[i].st.result = Success
        /\ Has(tasks[i].st.log, "reorder")
        /\ Ds(i).pixels = <<0, 1, 2>>
        /\ tasks[i].st.arr.v = <<255, 127, 0>>

\* C8 (as claimed): when the batch has returned, every file recorded as
\* Success has its bitmap on disk under the target root.
C8_SuccessHasBitmap ==
    phase = "done" =>
        \A i \in DOMAIN results :
            results[i].kind = "Success" => OnDisk(root_folder, BitmapName(Ds(i)))

\* What holds of the code: a Success has attempted the write at the path the
\* spec names, and the bitmap is there unless files cannot be created.
C8_SuccessHasBitmapWhenWritable ==
    phase = "done" =>
        \A i \in DOMAIN results :
            results[i].kind = "Success" =>
                /\ tasks[i].st.path = [dir |-> root_folder, name |-> BitmapName(Ds(i))]
                /\ root_folder \in dirs
                /\ fsMode # "nowrite" => OnDisk(root_folder, BitmapName(Ds(i)))

\* The outcomes of a sequential run over the same files.  mkdir adds no
\* directory while creating one is refused, the only case in which an outcome
\* reads the directories, so the reference may start from those that exist now.
SequentialOutcomes == SequentialResults(dicom_file_list, dirs)

\* C9: in parallel mode, whatever the interleaving, a task that a worker has
\* started is never held back by another task (its first step waits for
\* nothing but its own position, and its two steps on the shared output
\* directory are always enabled), the outcomes are gathered in file order and
\* agree with those of a sequential run, and the summary is computed only when
\* every task has finished, with the flag a sequential run returns.
C9_ParallelAgreesWithSequential ==
    submitted =>
        LET reference == SequentialOutcomes
        IN  /\ Parallel
            /\ \A i \in DOMAIN tasks :
                  /\ tasks[i].pc = "local" => phase = "run"
                  /\ tasks[i].pc = "mkdir" => ENABLED TaskMkdir(i)
                  /\ tasks[i].pc = "imwrite" => ENABLED TaskImwrite(i)
            /\ Len(results) <= Len(reference)
            /\ \A i \in DOMAIN results : Finished(i) /\ results[i] = reference[i]
            /\ phase = "done" =>
                  /\ \A i \in DOMAIN tasks : Finished(i)
                  /\ Len(results) = Len(dicom_file_list)
                  /\ Len(results) = Len(reference)
                  /\ ret = (IF \E i \in DOMAIN reference : reference[i].ok
                            THEN "True" ELSE "False")

\* C9 witness: a finished parallel batch with more files than workers and
\* with every kind of outcome.
C9_Witness ==
    /\ phase = "done"
    /\ submitted
    /\ Len(tasks) > MaxWorkers
    /\ \E i \in DOMAIN results : results[i].kind = "Success"
    /\ \E i \in DOMAIN results : results[i].kind = "Skipped"
    /\ \E i \in DOMAIN results : results[i].kind = "Failed"

\* Two tasks are in flight at once, a later file's task ahead of an earlier one's.
C9_OvertakingReached ==
    \E i, j \in DOMAIN tasks :
        i < j /\ tasks[i].pc = "local" /\ tasks[j].pc = "imwrite" /\ submitted

\* A sequential run, too, returns the outcomes of the reference.
SequentialRunAgrees ==
    phase = "done" /\ ~submitted => results = SequentialOutcomes

\* C10 (as claimed): the plane reorder touches only H x W x 3 arrays with one
\* of the listed photometric interpretations, and a 2-D array is never failed
\* by it.
C10_ReorderOnlyThreeChannel ==
    \A i \in DOMAIN tasks :
        /\ Has(tasks[i].st.log, "reorder") =>
              /\ Ds(i).shape = <<1, 1, 3>>
              /\ Reorders(Ds(i))
        /\ Len(Ds(i).shape) = 2 =>
              tasks[i].st.result # Failed("IndexError: too many indices for array")

\* What the code does: a 2-D array with a listed interpretation fails in the
\* reorder, after the whole pipeline has run.
C10_TwoDimensionalPaletteFails ==
    \E i \in DOMAIN tasks :
        /\ Ds(i).shape = <<1, 2>>
        /\ Ds(i).PhotometricInterpretation = "PALETTE COLOR"
        /\ Has(tasks[i].st.log, "quantize")
        /\ tasks[i].st.result.kind = "Failed"

====
